---- MODULE Spec2Model ----
(***************************************************************************)
(* Model of the ContentOwnership ink! contract (src/lib.rs).               *)
(*                                                                         *)
(* The contract is a state machine over five storage fields.  The host     *)
(* runs one message at a time and supplies the caller.  Strings are        *)
(* sequences of one-character strings, so that starts_with is computed     *)
(* and not assumed.  u64 is scaled down to 0 .. MaxContentId, keeping the  *)
(* checked_add overflow behaviour at the top of the range.                 *)
(***************************************************************************)
EXTENDS Integers, Sequences, FiniteSets, TLC

(* ---------------------------------------------------------------------- *)
(* Bounds and input sets                                                   *)
(* ---------------------------------------------------------------------- *)

\* Stand-in for u64::MAX: the largest value next_content_id can hold.
MaxContentId == 3

\* AccountId values the host can supply as caller or new_owner.
Accounts == {"A", "B", "C"}

\* String::from("default_oracle"), src/lib.rs:72.
DefaultOracle ==
    <<"d","e","f","a","u","l","t","_","o","r","a","c","l","e">>

Str_empty == << >>
Str_abc == <<"a","b","c">>
Str_xyz == <<"x","y","z">>
Str_xyz123 == <<"x","y","z","1","2","3">>

\* content_hash arguments given to register_content.
Hashes == {Str_abc, Str_xyz123, DefaultOracle}

\* new_data arguments given to update_oracle_data.
OracleValues == {Str_empty, Str_xyz, DefaultOracle}

\* content_id arguments given to transfer_ownership (u64, so 0 included).
ContentIds == 0 .. MaxContentId

(* ---------------------------------------------------------------------- *)
(* Result<T> and Option<T>                                                 *)
(* ---------------------------------------------------------------------- *)

Ok(v) == [tag |-> "Ok", val |-> v, err |-> "-"]
Err(e) == [tag |-> "Err", val |-> 0, err |-> e]
None == [some |-> FALSE]
Some(v) == [some |-> TRUE, val |-> v]

\* Error enum, src/lib.rs:26-37.
Error == {"NotAdmin", "ContentNotFound", "NotOwner", "CounterOverflow", "InvalidContent"}

\* struct Content, src/lib.rs:17-20.
Content(h, o) == [content_hash |-> h, owner |-> o]

(* ---------------------------------------------------------------------- *)
(* Storage                                                                 *)
(* ---------------------------------------------------------------------- *)

VARIABLES
    admin,               \* AccountId
    oracle_data,         \* String
    contents,            \* Mapping<u64, Content>
    next_content_id,     \* u64
    content_hash_to_id,  \* BTreeMap<String, u64>
    last,                \* the message the host ran last, with its result
    issued,              \* the distinct (hash, id) pairs register_content has returned so far
    handoff              \* per id, the (from, to) of its latest successful transfer; kept under SpecHandoff only

storage == <<admin, oracle_data, contents, next_content_id, content_hash_to_id>>
vars == <<admin, oracle_data, contents, next_content_id, content_hash_to_id, last, issued, handoff>>

\* The contract's storage as one value (the `self` of the methods).
Self ==
    [admin |-> admin,
     oracle_data |-> oracle_data,
     contents |-> contents,
     next_content_id |-> next_content_id,
     content_hash_to_id |-> content_hash_to_id]

\* Mapping::insert / BTreeMap::insert.
Insert(m, k, v) == [x \in (DOMAIN m) \cup {k} |-> IF x = k THEN v ELSE m[x]]

\* Mapping::get.
MapGet(m, k) == IF k \in DOMAIN m THEN Some(m[k]) ELSE None

EmptyMap == [x \in {} |-> 0]

(* ---------------------------------------------------------------------- *)
(* Methods, as functions (self, caller, args) -> (self', result)           *)
(* ---------------------------------------------------------------------- *)

\* Faulty starts_with: an empty pattern matches nothing.
starts_with_nonempty(s, p) ==
    /\ Len(p) > 0
    /\ Len(p) <= Len(s)
    /\ \A k \in 1 .. Len(p) : s[k] = p[k]

\* str::starts_with: p is a prefix of s.
starts_with(s, p) ==
    /\ Len(p) <= Len(s)
    /\ \A k \in 1 .. Len(p) : s[k] = p[k]

\* Faulty checked_add: wraps around instead of reporting the overflow.
checked_add_wrapping(a, b) == Some((a + b) % (MaxContentId + 1))

\* u64::checked_add.
checked_add(a, b) == IF a + b > MaxContentId THEN None ELSE Some(a + b)

\* Faulty gate: tests the prefix relation the wrong way round.
validate_content_with_oracle_reversed(self, content_hash) ==
    starts_with(self.oracle_data, content_hash)

validate_content_with_oracle(self, content_hash) ==
    starts_with(content_hash, self.oracle_data)

default_self ==
    [admin |-> "0",
     oracle_data |-> DefaultOracle,
     contents |-> EmptyMap,
     next_content_id |-> 1,
     content_hash_to_id |-> EmptyMap]

\* Faulty constructor: the default admin is not replaced by the caller.
new_default_admin(caller) == default_self

new(caller) == [default_self EXCEPT !.admin = caller]

\* Faulty update_oracle_data: records that fail the new data are evicted.
update_oracle_data_evict(self, caller, new_data) ==
    IF caller # self.admin
    THEN [self |-> self, ret |-> Err("NotAdmin")]
    ELSE LET keep == {i \in DOMAIN self.contents :
                        starts_with(self.contents[i].content_hash, new_data)}
             kept == {h \in DOMAIN self.content_hash_to_id : starts_with(h, new_data)}
         IN [self |-> [self EXCEPT
                         !.oracle_data = new_data,
                         !.contents = [i \in keep |-> self.contents[i]],
                         !.content_hash_to_id = [h \in kept |-> self.content_hash_to_id[h]]],
             ret |-> Ok(0)]

\* Faulty update_oracle_data: no admin check.
update_oracle_data_unchecked(self, caller, new_data) ==
    [self |-> [self EXCEPT !.oracle_data = new_data], ret |-> Ok(0)]

update_oracle_data(self, caller, new_data) ==
    IF caller # self.admin
    THEN [self |-> self, ret |-> Err("NotAdmin")]
    ELSE [self |-> [self EXCEPT !.oracle_data = new_data], ret |-> Ok(0)]

\* Faulty register_content: the id is read after the counter is advanced.
register_content_post_increment(self, caller, content_hash) ==
    IF ~validate_content_with_oracle(self, content_hash)
    THEN [self |-> self, ret |-> Err("InvalidContent")]
    ELSE IF content_hash \in DOMAIN self.content_hash_to_id
    THEN [self |-> self, ret |-> Ok(self.content_hash_to_id[content_hash])]
    ELSE LET sum == checked_add(self.next_content_id, 1)
         IN IF ~sum.some
            THEN [self |-> self, ret |-> Err("CounterOverflow")]
            ELSE [self |-> [self EXCEPT
                              !.next_content_id = sum.val,
                              !.contents = Insert(@, sum.val, Content(content_hash, caller)),
                              !.content_hash_to_id = Insert(@, content_hash, sum.val)],
                  ret |-> Ok(sum.val)]

\* Faulty register_content: the new record is owned by the admin.
register_content_owner_admin(self, caller, content_hash) ==
    IF ~validate_content_with_oracle(self, content_hash)
    THEN [self |-> self, ret |-> Err("InvalidContent")]
    ELSE IF content_hash \in DOMAIN self.content_hash_to_id
    THEN [self |-> self, ret |-> Ok(self.content_hash_to_id[content_hash])]
    ELSE LET content_id == self.next_content_id
             sum == checked_add(self.next_content_id, 1)
         IN IF ~sum.some
            THEN [self |-> self, ret |-> Err("CounterOverflow")]
            ELSE [self |-> [self EXCEPT
                              !.next_content_id = sum.val,
                              !.contents = Insert(@, content_id, Content(content_hash, self.admin)),
                              !.content_hash_to_id = Insert(@, content_hash, content_id)],
                  ret |-> Ok(content_id)]

\* Faulty register_content: a re-registration also advances the counter.
register_content_dedup_advances(self, caller, content_hash) ==
    IF ~validate_content_with_oracle(self, content_hash)
    THEN [self |-> self, ret |-> Err("InvalidContent")]
    ELSE LET content_id == self.next_content_id
             sum == checked_add(self.next_content_id, 1)
         IN IF content_hash \in DOMAIN self.content_hash_to_id
            THEN [self |-> [self EXCEPT
                              !.next_content_id = IF sum.some THEN sum.val ELSE @],
                  ret |-> Ok(self.content_hash_to_id[content_hash])]
            ELSE IF ~sum.some
            THEN [self |-> self, ret |-> Err("CounterOverflow")]
            ELSE [self |-> [self EXCEPT
                              !.next_content_id = sum.val,
                              !.contents = Insert(@, content_id, Content(content_hash, caller)),
                              !.content_hash_to_id = Insert(@, content_hash, content_id)],
                  ret |-> Ok(content_id)]

\* Faulty register_content: the deduplication check comes before the gate.
register_content_dedup_first(self, caller, content_hash) ==
    IF content_hash \in DOMAIN self.content_hash_to_id
    THEN [self |-> self, ret |-> Ok(self.content_hash_to_id[content_hash])]
    ELSE IF ~validate_content_with_oracle(self, content_hash)
    THEN [self |-> self, ret |-> Err("InvalidContent")]
    ELSE LET content_id == self.next_content_id
             sum == checked_add(self.next_content_id, 1)
         IN IF ~sum.some
            THEN [self |-> self, ret |-> Err("CounterOverflow")]
            ELSE [self |-> [self EXCEPT
                              !.next_content_id = sum.val,
                              !.contents = Insert(@, content_id, Content(content_hash, caller)),
                              !.content_hash_to_id = Insert(@, content_hash, content_id)],
                  ret |-> Ok(content_id)]

\* Faulty register_content: the counter is advanced before the
\* deduplication check, so a full counter refuses re-registrations too.
register_content_overflow_first(self, caller, content_hash) ==
    IF ~validate_content_with_oracle(self, content_hash)
    THEN [self |-> self, ret |-> Err("InvalidContent")]
    ELSE LET content_id == self.next_content_id
             sum == checked_add(self.next_content_id, 1)
         IN IF ~sum.some
            THEN [self |-> self, ret |-> Err("CounterOverflow")]
            ELSE IF content_hash \in DOMAIN self.content_hash_to_id
            THEN [self |-> self, ret |-> Ok(self.content_hash_to_id[content_hash])]
            ELSE [self |-> [self EXCEPT
                              !.next_content_id = sum.val,
                              !.contents = Insert(@, content_id, Content(content_hash, caller)),
                              !.content_hash_to_id = Insert(@, content_hash, content_id)],
                  ret |-> Ok(content_id)]

\* Faulty register_content: the hash index is not updated.
register_content_no_index(self, caller, content_hash) ==
    IF ~validate_content_with_oracle(self, content_hash)
    THEN [self |-> self, ret |-> Err("InvalidContent")]
    ELSE IF content_hash \in DOMAIN self.content_hash_to_id
    THEN [self |-> self, ret |-> Ok(self.content_hash_to_id[content_hash])]
    ELSE LET content_id == self.next_content_id
             sum == checked_add(self.next_content_id, 1)
         IN IF ~sum.some
            THEN [self |-> self, ret |-> Err("CounterOverflow")]
            ELSE [self |-> [self EXCEPT
                              !.next_content_id = sum.val,
                              !.contents = Insert(@, content_id, Content(content_hash, caller))],
                  ret |-> Ok(content_id)]

\* Faulty register_content: the counter is checked but not advanced.
register_content_no_increment(self, caller, content_hash) ==
    IF ~validate_content_with_oracle(self, content_hash)
    THEN [self |-> self, ret |-> Err("InvalidContent")]
    ELSE IF content_hash \in DOMAIN self.content_hash_to_id
    THEN [self |-> self, ret |-> Ok(self.content_hash_to_id[content_hash])]
    ELSE LET content_id == self.next_content_id
             sum == checked_add(self.next_content_id, 1)
         IN IF ~sum.some
            THEN [self |-> self, ret |-> Err("CounterOverflow")]
            ELSE [self |-> [self EXCEPT
                              !.contents = Insert(@, content_id, Content(content_hash, caller)),
                              !.content_hash_to_id = Insert(@, content_hash, content_id)],
                  ret |-> Ok(content_id)]

\* Faulty register_content: no deduplication check.
register_content_no_dedup(self, caller, content_hash) ==
    IF ~validate_content_with_oracle(self, content_hash)
    THEN [self |-> self, ret |-> Err("InvalidContent")]
    ELSE LET content_id == self.next_content_id
             sum == checked_add(self.next_content_id, 1)
         IN IF ~sum.some
            THEN [self |-> self, ret |-> Err("CounterOverflow")]
            ELSE [self |-> [self EXCEPT
                              !.next_content_id = sum.val,
                              !.contents = Insert(@, content_id, Content(content_hash, caller)),
                              !.content_hash_to_id = Insert(@, content_hash, content_id)],
                  ret |-> Ok(content_id)]

\* Faulty register_content: the record and index entry are written before
\* the counter is advanced, so an overflow leaves them behind.
register_content_insert_first(self, caller, content_hash) ==
    IF ~validate_content_with_oracle(self, content_hash)
    THEN [self |-> self, ret |-> Err("InvalidContent")]
    ELSE IF content_hash \in DOMAIN self.content_hash_to_id
    THEN [self |-> self, ret |-> Ok(self.content_hash_to_id[content_hash])]
    ELSE LET content_id == self.next_content_id
             sum == checked_add(self.next_content_id, 1)
             written == [self EXCEPT
                           !.contents = Insert(@, content_id, Content(content_hash, caller)),
                           !.content_hash_to_id = Insert(@, content_hash, content_id)]
         IN IF ~sum.some
            THEN [self |-> written, ret |-> Err("CounterOverflow")]
            ELSE [self |-> [written EXCEPT !.next_content_id = sum.val],
                  ret |-> Ok(content_id)]

\* Faulty register_content: re-registration hands the record to the caller.
register_content_reassign(self, caller, content_hash) ==
    IF ~validate_content_with_oracle(self, content_hash)
    THEN [self |-> self, ret |-> Err("InvalidContent")]
    ELSE IF content_hash \in DOMAIN self.content_hash_to_id
    THEN LET id == self.content_hash_to_id[content_hash]
         IN [self |-> [self EXCEPT !.contents = Insert(@, id, Content(content_hash, caller))],
             ret |-> Ok(id)]
    ELSE LET content_id == self.next_content_id
             sum == checked_add(self.next_content_id, 1)
         IN IF ~sum.some
            THEN [self |-> self, ret |-> Err("CounterOverflow")]
            ELSE [self |-> [self EXCEPT
                              !.next_content_id = sum.val,
                              !.contents = Insert(@, content_id, Content(content_hash, caller)),
                              !.content_hash_to_id = Insert(@, content_hash, content_id)],
                  ret |-> Ok(content_id)]

register_content(self, caller, content_hash) ==
    IF ~validate_content_with_oracle(self, content_hash)
    THEN [self |-> self, ret |-> Err("InvalidContent")]
    ELSE IF content_hash \in DOMAIN self.content_hash_to_id
    THEN [self |-> self, ret |-> Ok(self.content_hash_to_id[content_hash])]
    ELSE LET content_id == self.next_content_id
             sum == checked_add(self.next_content_id, 1)
         IN IF ~sum.some
            THEN [self |-> self, ret |-> Err("CounterOverflow")]
            ELSE [self |-> [self EXCEPT
                              !.next_content_id = sum.val,
                              !.contents = Insert(@, content_id, Content(content_hash, caller)),
                              !.content_hash_to_id = Insert(@, content_hash, content_id)],
                  ret |-> Ok(content_id)]

\* Faulty transfer_ownership: the record is rebuilt without its hash.
transfer_ownership_clobber_hash(self, caller, content_id, new_owner) ==
    LET got == MapGet(self.contents, content_id)
    IN IF ~got.some
       THEN [self |-> self, ret |-> Err("ContentNotFound")]
       ELSE IF caller # got.val.owner
       THEN [self |-> self, ret |-> Err("NotOwner")]
       ELSE [self |-> [self EXCEPT
                         !.contents = Insert(@, content_id, Content(<< >>, new_owner))],
             ret |-> Ok(0)]

\* Faulty transfer_ownership: the changed copy of the record is not
\* written back to the mapping.
transfer_ownership_no_persist(self, caller, content_id, new_owner) ==
    LET got == MapGet(self.contents, content_id)
    IN IF ~got.some
       THEN [self |-> self, ret |-> Err("ContentNotFound")]
       ELSE IF caller # got.val.owner
       THEN [self |-> self, ret |-> Err("NotOwner")]
       ELSE [self |-> self, ret |-> Ok(0)]

\* Faulty transfer_ownership: no owner check.
transfer_ownership_unchecked(self, caller, content_id, new_owner) ==
    LET got == MapGet(self.contents, content_id)
    IN IF ~got.some
       THEN [self |-> self, ret |-> Err("ContentNotFound")]
       ELSE [self |-> [self EXCEPT
                         !.contents = Insert(@, content_id, [got.val EXCEPT !.owner = new_owner])],
             ret |-> Ok(0)]

transfer_ownership(self, caller, content_id, new_owner) ==
    LET got == MapGet(self.contents, content_id)
    IN IF ~got.some
       THEN [self |-> self, ret |-> Err("ContentNotFound")]
       ELSE IF caller # got.val.owner
       THEN [self |-> self, ret |-> Err("NotOwner")]
       ELSE [self |-> [self EXCEPT
                         !.contents = Insert(@, content_id, [got.val EXCEPT !.owner = new_owner])],
             ret |-> Ok(0)]

get_content(self, content_id) == MapGet(self.contents, content_id)

get_oracle_data(self) == self.oracle_data

(* ---------------------------------------------------------------------- *)
(* The state machine                                                       *)
(* ---------------------------------------------------------------------- *)

\* A message as the host ran it; fields a message does not have are "-".
Call(op, caller, content_hash, content_id, new_owner, new_data, ret) ==
    [op |-> op, caller |-> caller, content_hash |-> content_hash,
     content_id |-> content_id, new_owner |-> new_owner,
     new_data |-> new_data, ret |-> ret]

\* Write a storage value back to the fields.
Store(self) ==
    /\ admin' = self.admin
    /\ oracle_data' = self.oracle_data
    /\ contents' = self.contents
    /\ next_content_id' = self.next_content_id
    /\ content_hash_to_id' = self.content_hash_to_id

\* What register_content has returned so far, as the distinct (hash, id)
\* pairs, each at the place of its first return.  A return that repeats a
\* pair adds nothing; every single return, first or repeated, is the `ret`
\* of `last` in the step that makes it.
Record(log, content_hash, ret) ==
    IF ret.tag = "Ok" /\ ~\E k \in 1 .. Len(log) : log[k] = <<content_hash, ret.val>>
    THEN Append(log, <<content_hash, ret.val>>)
    ELSE log

Init ==
    \E caller \in Accounts :
        LET self == new(caller)
        IN /\ admin = self.admin
           /\ oracle_data = self.oracle_data
           /\ contents = self.contents
           /\ next_content_id = self.next_content_id
           /\ content_hash_to_id = self.content_hash_to_id
           /\ last = Call("new", caller, << >>, 0, "-", << >>, Ok(0))
           /\ issued = << >>
           /\ handoff = EmptyMap

UpdateOracleData ==
    \E caller \in Accounts, new_data \in OracleValues :
        LET r == update_oracle_data(Self, caller, new_data)
        IN /\ Store(r.self)
           /\ last' = Call("update_oracle_data", caller, << >>, 0, "-", new_data, r.ret)
           /\ UNCHANGED issued

RegisterContent ==
    \E caller \in Accounts, content_hash \in Hashes :
        LET r == register_content(Self, caller, content_hash)
        IN /\ Store(r.self)
           /\ last' = Call("register_content", caller, content_hash, 0, "-", << >>, r.ret)
           /\ issued' = Record(issued, content_hash, r.ret)

TransferOwnership ==
    \E caller \in Accounts, content_id \in ContentIds, new_owner \in Accounts :
        LET r == transfer_ownership(Self, caller, content_id, new_owner)
        IN /\ Store(r.self)
           /\ last' = Call("transfer_ownership", caller, << >>, content_id, new_owner, << >>, r.ret)
           /\ UNCHANGED issued

Next ==
    \/ UpdateOracleData /\ UNCHANGED handoff
    \/ RegisterContent /\ UNCHANGED handoff
    \/ TransferOwnership /\ UNCHANGED handoff

Spec == Init /\ [][Next]_vars

\* The host's note of who handed a record to whom: a successful transfer
\* replaces the note of its id.
Noted(notes, call) ==
    IF call.ret.tag = "Ok"
    THEN Insert(notes, call.content_id, [from |-> call.caller, to |-> call.new_owner])
    ELSE notes

\* Arguments of register_content and update_oracle_data under SpecHandoff.
HandoffHashes == {Str_abc, DefaultOracle}
HandoffOracleValues == {Str_empty, DefaultOracle}

\* The same messages with the hand-offs noted, all accounts and ids, and
\* the hashes and oracle data above.
NextHandoff ==
    \/ /\ UpdateOracleData
       /\ last'.new_data \in HandoffOracleValues
       /\ UNCHANGED handoff
    \/ /\ RegisterContent
       /\ last'.content_hash \in HandoffHashes
       /\ UNCHANGED handoff
    \/ /\ TransferOwnership
       /\ handoff' = Noted(handoff, last')

SpecHandoff == Init /\ [][NextHandoff]_vars

\* Create(caller, initial_rule?) of the registry's interface, as this
\* contract offers it: the one constructor is new(), which has no parameter
\* for the oracle data (src/lib.rs:87), so there is nothing a supplied rule
\* can be passed to.
Create(caller, initial_rule) == new(caller)

\* A deployment asks for some initial rule or for none.
InitCreate ==
    \E caller \in Accounts, initial_rule \in {None} \cup {Some(r) : r \in OracleValues} :
        LET self == Create(caller, initial_rule)
        IN /\ admin = self.admin
           /\ oracle_data = self.oracle_data
           /\ contents = self.contents
           /\ next_content_id = self.next_content_id
           /\ content_hash_to_id = self.content_hash_to_id
           /\ last = Call("new", caller, << >>, 0, "-", initial_rule, Ok(0))
           /\ issued = << >>
           /\ handoff = EmptyMap

\* The contract deployed through Create, then the same messages.
SpecCreate == InitCreate /\ [][Next]_vars

TypeOK ==
    /\ admin \in Accounts
    /\ oracle_data \in OracleValues
    /\ next_content_id \in 1 .. MaxContentId
    /\ DOMAIN contents \subseteq 1 .. MaxContentId
    /\ \A i \in DOMAIN contents :
          contents[i].content_hash \in Hashes /\ contents[i].owner \in Accounts
    /\ DOMAIN content_hash_to_id \subseteq Hashes
    /\ last.ret.tag \in {"Ok", "Err"}
    /\ last.ret.tag = "Err" => last.ret.err \in Error

(* ---------------------------------------------------------------------- *)
(* Claims                                                                  *)
(* ---------------------------------------------------------------------- *)

IsRegister(c) == c.op = "register_content"
IsTransfer(c) == c.op = "transfer_ownership"
IsUpdate(c) == c.op = "update_oracle_data"

\* C1: the hash index and the record store are in one-to-one
\* correspondence: id i holds a record with hash f exactly when the index
\* maps f to i, and no two distinct hashes map to the same id.
C1_IndexMatchesRecords ==
    /\ \A i \in DOMAIN contents :
          /\ contents[i].content_hash \in DOMAIN content_hash_to_id
          /\ content_hash_to_id[contents[i].content_hash] = i
    /\ \A f \in DOMAIN content_hash_to_id :
          /\ content_hash_to_id[f] \in DOMAIN contents
          /\ contents[content_hash_to_id[f]].content_hash = f
    /\ \A f, g \in DOMAIN content_hash_to_id :
          content_hash_to_id[f] = content_hash_to_id[g] => f = g

\* Two records exist and an ownership transfer has just succeeded.
C1_Witness ==
    /\ Cardinality(DOMAIN contents) = 2
    /\ Cardinality(DOMAIN content_hash_to_id) = 2
    /\ IsTransfer(last)
    /\ last.ret.tag = "Ok"

\* C2 as stated: the ids returned by successful register_content calls
\* with distinct hashes are strictly increasing in call order and the first
\* is 1.  Stated per return: a returned id is greater than every id returned
\* before for another hash, and the first id returned is 1.
C2_Original ==
    [][(IsRegister(last') /\ last'.ret.tag = "Ok") =>
         /\ Len(issued) = 0 => last'.ret.val = 1
         /\ \A k \in 1 .. Len(issued) :
               issued[k][1] # last'.content_hash => issued[k][2] < last'.ret.val]_vars

\* C2 amended: the ids returned by the register_content calls that create a
\* record are strictly increasing in call order and the first is 1; a
\* successful call for a hash that has a record returns that hash's id
\* again, which can be smaller than ids returned in between; no id is ever
\* returned for two different hashes.
C2_FirstIdsIncreasing ==
    /\ [][(IsRegister(last') /\ last'.ret.tag = "Ok") =>
            IF \E k \in 1 .. Len(issued) : issued[k][1] = last'.content_hash
            THEN /\ contents' = contents
                 /\ \E k \in 1 .. Len(issued) :
                       issued[k] = <<last'.content_hash, last'.ret.val>>
            ELSE /\ DOMAIN contents' # DOMAIN contents
                 /\ Len(issued) = 0 => last'.ret.val = 1
                 /\ \A k \in 1 .. Len(issued) : issued[k][2] < last'.ret.val]_vars
    /\ [](\A j, k \in 1 .. Len(issued) :
             /\ (j < k /\ issued[j][1] # issued[k][1]) => issued[j][2] < issued[k][2]
             /\ issued[j][2] = issued[k][2] => issued[j][1] = issued[k][1])

\* After ids 1 and 2 were issued for two hashes, a call for the first hash
\* has returned 1 again.
C2_Witness ==
    /\ Len(issued) = 2
    /\ issued[1][1] # issued[2][1]
    /\ issued[2][2] = 2
    /\ IsRegister(last)
    /\ last.content_hash = issued[1][1]
    /\ last.ret = Ok(1)

\* C3 as stated: once register_content(f) has returned id i, every later
\* register_content(f) returns i and leaves the owner of record i alone.
C3_Original ==
    [][IsRegister(last') =>
         \A k \in 1 .. Len(issued) :
            issued[k][1] = last'.content_hash =>
               /\ last'.ret = Ok(issued[k][2])
               /\ issued[k][2] \in DOMAIN contents
               /\ issued[k][2] \in DOMAIN contents'
               /\ contents'[issued[k][2]].owner = contents[issued[k][2]].owner]_vars

\* C3 amended: once register_content(f) has returned id i, every later
\* register_content(f) returns i when f begins with the current oracle data
\* and fails with InvalidContent when it does not; in both cases the owner
\* of record i is left alone.
C3_DedupIdempotent ==
    [][IsRegister(last') =>
         \A k \in 1 .. Len(issued) :
            issued[k][1] = last'.content_hash =>
               /\ IF starts_with(last'.content_hash, oracle_data)
                  THEN last'.ret = Ok(issued[k][2])
                  ELSE last'.ret = Err("InvalidContent")
               /\ issued[k][2] \in DOMAIN contents
               /\ issued[k][2] \in DOMAIN contents'
               /\ contents'[issued[k][2]].owner = contents[issued[k][2]].owner]_vars

\* A second caller has re-registered a hash and got the id of the record
\* that another account owns.
C3_Witness ==
    /\ IsRegister(last)
    /\ last.ret.tag = "Ok"
    /\ last.ret.val \in DOMAIN contents
    /\ contents[last.ret.val].content_hash = last.content_hash
    /\ contents[last.ret.val].owner # last.caller
    /\ next_content_id > last.ret.val + 1

\* C4: transfer_ownership succeeds exactly when a record exists at the id
\* and the caller is its current owner; it fails with ContentNotFound when
\* no record exists and with NotOwner when the caller is not the owner.
C4_TransferAuthorization ==
    [][IsTransfer(last') =>
         LET id == last'.content_id
             found == id \in DOMAIN contents
         IN /\ last'.ret.tag = "Ok" <=> (found /\ contents[id].owner = last'.caller)
            /\ ~found => last'.ret = Err("ContentNotFound")
            /\ (found /\ contents[id].owner # last'.caller) => last'.ret = Err("NotOwner")]_vars

\* A transfer of an existing record by an account that does not own it was
\* refused.
C4_Witness ==
    /\ IsTransfer(last)
    /\ last.ret = Err("NotOwner")
    /\ last.content_id \in DOMAIN contents
    /\ contents[last.content_id].owner # last.caller

\* C5: update_oracle_data succeeds and stores new_data exactly when the
\* caller is the admin; from any other caller it fails with NotAdmin and
\* get_oracle_data returns what it returned before.
C5_AdminGate ==
    [][IsUpdate(last') =>
         IF last'.caller = admin
         THEN /\ last'.ret = Ok(0)
              /\ get_oracle_data(Self)' = last'.new_data
         ELSE /\ last'.ret = Err("NotAdmin")
              /\ get_oracle_data(Self)' = get_oracle_data(Self)]_vars

\* The admin has set the empty rule.
C5_Witness ==
    /\ IsUpdate(last)
    /\ last.caller = admin
    /\ last.ret = Ok(0)
    /\ last.new_data = Str_empty
    /\ oracle_data = Str_empty

\* C6: register_content fails with InvalidContent exactly when the hash
\* does not begin with the current oracle data; the empty rule rejects
\* nothing, rule "xyz" rejects "abc" and accepts "xyz123".
C6_GateEnforcement ==
    [][IsRegister(last') =>
         /\ last'.ret = Err("InvalidContent") <=> ~starts_with(last'.content_hash, oracle_data)
         /\ oracle_data = Str_empty => last'.ret # Err("InvalidContent")
         /\ (oracle_data = Str_xyz /\ last'.content_hash = Str_abc) =>
               last'.ret = Err("InvalidContent")
         /\ (oracle_data = Str_xyz /\ last'.content_hash = Str_xyz123) =>
               last'.ret # Err("InvalidContent")]_vars

\* Under rule "xyz" the hash "xyz123" has been registered.
C6_Witness ==
    /\ IsRegister(last)
    /\ oracle_data = Str_xyz
    /\ last.content_hash = Str_xyz123
    /\ last.ret.tag = "Ok"

\* C7: with next_content_id at the maximum, register_content of a hash that
\* passes the gate and is not in the index fails with CounterOverflow and
\* changes nothing; the maximum id is never issued.
C7_Overflow ==
    /\ [][(/\ IsRegister(last')
           /\ next_content_id = MaxContentId
           /\ starts_with(last'.content_hash, oracle_data)
           /\ last'.content_hash \notin DOMAIN content_hash_to_id) =>
            (/\ last'.ret = Err("CounterOverflow")
             /\ storage' = storage
             /\ issued' = issued)]_vars
    /\ [](/\ MaxContentId \notin DOMAIN contents
          /\ \A k \in 1 .. Len(issued) : issued[k][2] # MaxContentId)

\* A registration has been refused with CounterOverflow.
C7_Witness ==
    /\ IsRegister(last)
    /\ last.ret = Err("CounterOverflow")
    /\ next_content_id = MaxContentId
    /\ last.content_hash \notin DOMAIN content_hash_to_id

\* C8: a call that returns an error, of whichever kind, leaves all five
\* storage fields as they were.
C8_AllOrNothing ==
    [][last'.ret.tag = "Err" =>
         /\ last'.ret.err \in Error
         /\ admin' = admin
         /\ oracle_data' = oracle_data
         /\ contents' = contents
         /\ next_content_id' = next_content_id
         /\ content_hash_to_id' = content_hash_to_id]_vars

\* A registration has failed in a registry that holds records.
C8_Witness ==
    /\ IsRegister(last)
    /\ last.ret.tag = "Err"
    /\ last.ret.err \in {"CounterOverflow", "InvalidContent"}
    /\ DOMAIN contents # {}

\* C9: whenever the owner of an existing record differs before and after a
\* step, the step is a successful transfer_ownership on that record called
\* by its owner before the step.
C9_OwnerChangesOnlyByTransfer ==
    [][\A i \in DOMAIN contents :
          (i \in DOMAIN contents' /\ contents'[i].owner # contents[i].owner) =>
             /\ IsTransfer(last')
             /\ last'.content_id = i
             /\ last'.ret = Ok(0)
             /\ last'.caller = contents[i].owner]_vars

\* A record has been handed to another account.
C9_Witness ==
    /\ IsTransfer(last)
    /\ last.ret = Ok(0)
    /\ last.new_owner # last.caller
    /\ contents[last.content_id].owner = last.new_owner

\* C10 as stated: register_content never fails with InvalidContent while the
\* oracle data is the default value or the empty string.
C10_Original ==
    [][(IsRegister(last') /\ oracle_data \in {DefaultOracle, Str_empty}) =>
          last'.ret # Err("InvalidContent")]_vars

\* C10 amended: while the oracle data is the empty string register_content
\* never fails with InvalidContent; while it is the default value
\* "default_oracle" it fails with InvalidContent exactly for the hashes that
\* do not begin with "default_oracle".
C10_EmptyRuleAcceptsAll ==
    [][IsRegister(last') =>
         /\ oracle_data = Str_empty => last'.ret # Err("InvalidContent")
         /\ oracle_data = DefaultOracle =>
               (last'.ret = Err("InvalidContent") <=>
                  ~(/\ Len(last'.content_hash) >= Len(DefaultOracle)
                    /\ SubSeq(last'.content_hash, 1, Len(DefaultOracle)) = DefaultOracle))]_vars

\* Under the empty rule the hash "abc" has been registered.
C10_Witness ==
    /\ IsRegister(last)
    /\ oracle_data = Str_empty
    /\ last.content_hash = Str_abc
    /\ last.ret.tag = "Ok"

\* C11: Create(caller, initial_rule?) succeeds and yields admin = caller,
\* the oracle data that was supplied, or the default when none was, counter
\* 1 and empty maps.
C11_Create ==
    last.op = "new" =>
       /\ last.ret = Ok(0)
       /\ admin = last.caller
       /\ oracle_data = IF last.new_data.some THEN last.new_data.val ELSE DefaultOracle
       /\ next_content_id = 1
       /\ DOMAIN contents = {}
       /\ DOMAIN content_hash_to_id = {}

\* C12: the admin is the account that deployed the contract and no step
\* of any execution changes it.
C12_AdminImmutable ==
    /\ [](last.op = "new" => admin = last.caller)
    /\ [][admin' = admin]_vars

\* An account other than the admin has called update_oracle_data after the
\* admin changed the oracle data.
C12_Witness ==
    /\ IsUpdate(last)
    /\ last.caller # admin
    /\ oracle_data # DefaultOracle

\* C13: after a successful transfer of id i from A to B, A # B, and until
\* the next successful transfer of i, transfer_ownership on i fails with
\* NotOwner when called by A and succeeds when called by B.
C13_AuthorityHandoff ==
    [][(/\ IsTransfer(last')
        /\ last'.content_id \in DOMAIN handoff
        /\ handoff[last'.content_id].from # handoff[last'.content_id].to) =>
         (/\ last'.caller = handoff[last'.content_id].from =>
                last'.ret = Err("NotOwner")
          /\ last'.caller = handoff[last'.content_id].to =>
                last'.ret = Ok(0))]_vars

\* A handed record 1 to B, B handed it on to C, and B's next transfer of it
\* was refused.
C13_Witness ==
    /\ IsTransfer(last)
    /\ last.content_id = 1
    /\ last.caller = "B"
    /\ last.ret = Err("NotOwner")
    /\ 1 \in DOMAIN handoff
    /\ handoff[1] = [from |-> "B", to |-> "C"]
    /\ contents[1].owner = "C"

\* C14: a record, once it exists at id i with hash f, stays at i with hash
\* f and the index keeps mapping f to i, whatever step is taken; a change
\* of the oracle data to a value f does not begin with removes nothing.
C14_Permanence ==
    [][\A i \in DOMAIN contents :
          /\ i \in DOMAIN contents'
          /\ contents'[i].content_hash = contents[i].content_hash
          /\ contents[i].content_hash \in DOMAIN content_hash_to_id'
          /\ content_hash_to_id'[contents[i].content_hash] = i]_vars

\* The admin has just set oracle data that a stored record does not begin
\* with.
C14_Witness ==
    /\ IsUpdate(last)
    /\ last.ret = Ok(0)
    /\ \E i \in DOMAIN contents :
          /\ ~starts_with(contents[i].content_hash, oracle_data)
          /\ content_hash_to_id[contents[i].content_hash] = i

\* C15: next_content_id is greater than every id issued and never
\* decreases; the ids that hold a record are exactly 1 .. next_content_id-1,
\* so get_content(i) is Some exactly when 1 <= i < next_content_id.
C15_CounterAboveIds ==
    /\ [](/\ \A k \in 1 .. Len(issued) : issued[k][2] < next_content_id
          /\ DOMAIN contents = 1 .. (next_content_id - 1)
          /\ \A i \in ContentIds :
                get_content(Self, i).some <=> (1 <= i /\ i < next_content_id))
    /\ [][next_content_id' >= next_content_id]_vars

\* Two records exist; id 0 and the ids from next_content_id on hold none.
C15_Witness ==
    /\ next_content_id = 3
    /\ get_content(Self, 2) = Some(contents[2])
    /\ get_content(Self, 0) = None
    /\ get_content(Self, 3) = None

\* C16: register_content of a hash that passes the gate and is not in the
\* index, with the counter below the maximum, returns the counter's value
\* before the call, adds one record {hash, caller} at that id and one index
\* entry hash -> id, advances the counter by 1 and changes nothing else.
C16_FreshRegistration ==
    [][(/\ IsRegister(last')
        /\ starts_with(last'.content_hash, oracle_data)
        /\ last'.content_hash \notin DOMAIN content_hash_to_id
        /\ next_content_id < MaxContentId) =>
         (/\ last'.ret = Ok(next_content_id)
          /\ next_content_id' = next_content_id + 1
          /\ DOMAIN contents' = DOMAIN contents \cup {next_content_id}
          /\ next_content_id \notin DOMAIN contents
          /\ contents'[next_content_id] =
                [content_hash |-> last'.content_hash, owner |-> last'.caller]
          /\ \A i \in DOMAIN contents : contents'[i] = contents[i]
          /\ DOMAIN content_hash_to_id' =
                DOMAIN content_hash_to_id \cup {last'.content_hash}
          /\ content_hash_to_id'[last'.content_hash] = next_content_id
          /\ \A h \in DOMAIN content_hash_to_id :
                content_hash_to_id'[h] = content_hash_to_id[h]
          /\ admin' = admin
          /\ oracle_data' = oracle_data)]_vars

\* An account other than the admin has registered the second record.
C16_Witness ==
    /\ IsRegister(last)
    /\ last.ret = Ok(2)
    /\ next_content_id = 3
    /\ last.caller # admin
    /\ contents[2] = [content_hash |-> last.content_hash, owner |-> last.caller]
    /\ content_hash_to_id[last.content_hash] = 2

\* C17: register_content of a hash that passes the gate and is already in
\* the index returns the existing id and changes no storage field, whoever
\* the caller is.
C17_ReRegistrationNoOp ==
    [][(/\ IsRegister(last')
        /\ starts_with(last'.content_hash, oracle_data)
        /\ last'.content_hash \in DOMAIN content_hash_to_id) =>
         (/\ last'.ret = Ok(content_hash_to_id[last'.content_hash])
          /\ admin' = admin
          /\ oracle_data' = oracle_data
          /\ contents' = contents
          /\ next_content_id' = next_content_id
          /\ content_hash_to_id' = content_hash_to_id
          /\ issued' = issued)]_vars

\* The first record has been re-registered, by an account that does not
\* own it, while a second record exists.
C17_Witness ==
    /\ IsRegister(last)
    /\ last.ret = Ok(1)
    /\ next_content_id = 3
    /\ contents[1].content_hash = last.content_hash
    /\ contents[1].owner # last.caller

\* C18: a successful transfer_ownership sets the owner of the record to
\* new_owner, also when new_owner is the caller, and changes nothing else:
\* not the record's hash, no other record, no other storage field.
C18_TransferFrame ==
    [][(IsTransfer(last') /\ last'.ret.tag = "Ok") =>
         (/\ last'.content_id \in DOMAIN contents
          /\ DOMAIN contents' = DOMAIN contents
          /\ contents'[last'.content_id] =
                [content_hash |-> contents[last'.content_id].content_hash,
                 owner |-> last'.new_owner]
          /\ \A i \in DOMAIN contents :
                i # last'.content_id => contents'[i] = contents[i]
          /\ content_hash_to_id' = content_hash_to_id
          /\ next_content_id' = next_content_id
          /\ admin' = admin
          /\ oracle_data' = oracle_data)]_vars

\* An owner has transferred the second record to itself.
C18_Witness ==
    /\ IsTransfer(last)
    /\ last.ret = Ok(0)
    /\ last.content_id = 2
    /\ last.new_owner = last.caller
    /\ contents[2].owner = last.caller
    /\ 1 \in DOMAIN contents

\* C19: register_content of a hash that is in the index but does not begin
\* with the current oracle data fails with InvalidContent and changes
\* nothing: the gate is evaluated before the deduplication check.
C19_GateBeforeDedup ==
    [][(/\ IsRegister(last')
        /\ last'.content_hash \in DOMAIN content_hash_to_id
        /\ ~starts_with(last'.content_hash, oracle_data)) =>
         (/\ last'.ret = Err("InvalidContent")
          /\ storage' = storage)]_vars

\* A registered hash has been refused under a stricter rule.
C19_Witness ==
    /\ IsRegister(last)
    /\ last.ret = Err("InvalidContent")
    /\ last.content_hash \in DOMAIN content_hash_to_id
    /\ contents[content_hash_to_id[last.content_hash]].content_hash = last.content_hash

\* C20: with the counter at the maximum, register_content of a hash that is
\* in the index and passes the gate returns the existing id; CounterOverflow
\* is returned only for hashes that are not in the index.
C20_DedupBeforeOverflow ==
    [][IsRegister(last') =>
         /\ (/\ next_content_id = MaxContentId
             /\ last'.content_hash \in DOMAIN content_hash_to_id
             /\ starts_with(last'.content_hash, oracle_data)) =>
               last'.ret = Ok(content_hash_to_id[last'.content_hash])
         /\ last'.ret = Err("CounterOverflow") =>
               last'.content_hash \notin DOMAIN content_hash_to_id]_vars

\* With the counter full, an account that does not own the first record has
\* re-registered its hash and got id 1 back, which is below the newest id.
C20_Witness ==
    /\ IsRegister(last)
    /\ next_content_id = MaxContentId
    /\ last.ret = Ok(1)
    /\ last.ret.val + 1 < next_content_id
    /\ content_hash_to_id[last.content_hash] = 1
    /\ contents[1].owner # last.caller

====
